---- MODULE Spec2Model ----
(***************************************************************************)
(* BoundarySolverMonitor (src/src/monitors/boundarySolverMonitor.cpp).     *)
(*                                                                         *)
(* One monitor per MPI rank.  Register builds the Boundary Mesh (a clone   *)
(* of the solver's mesh carrying the face label and the face section) and  *)
(* the Face Sub-mesh; Save runs the per-snapshot transfer statement by     *)
(* statement; the destructor releases the two meshes.  Every PETSc call    *)
(* that the code guards with ">> checkError" throws when it reports an     *)
(* error.                                                                  *)
(***************************************************************************)
EXTENDS Integers, Sequences, FiniteSets, TLC

(***************************************************************************)
(* Bounds of the model.                                                    *)
(***************************************************************************)
NumCells == 1
NumFaces == 2
MaxGeom == 2
MaxComponents == 2
MaxRegisters == 2
MaxSaves == 2
MaxSeq == 1

(***************************************************************************)
(* The solver's mesh on one rank: NumCells cells, a chain of NumFaces      *)
(* faces and their NumFaces + 1 vertices, numbered as DMPlex numbers an    *)
(* interpolated mesh (cells, then vertices, then faces).  Every rank       *)
(* numbers its copy alike, so the same face id on two ranks is the same    *)
(* physical face.                                                          *)
(***************************************************************************)
vStart == NumCells
vEnd == vStart + NumFaces + 1
fStart == vEnd
fEnd == fStart + NumFaces
Faces == fStart .. (fEnd - 1)
Cone(f) == {vStart + (f - fStart), vStart + (f - fStart) + 1}

NULL == 0
Values == {0, 1}

\* The face ids a boundary-geometry entry may carry: every face of the mesh
\* and fEnd, which lies outside [fStart, fEnd).
FaceIds == fStart .. fEnd

RECURSIVE SeqsUpTo(_, _)
SeqsUpTo(S, n) ==
    IF n = 0 THEN {<<>>}
    ELSE LET shorter == SeqsUpTo(S, n - 1)
         IN  shorter \cup {Append(s, x) : s \in {t \in shorter : Len(t) = n - 1}, x \in S}

\* The solvers Register may be handed: a BoundarySolver with its
\* boundary geometry (the sequence of gradientStencil.geometry.faceId), or
\* a solver of another type.
BoundarySolvers == [kind : {"boundary"}, geometry : SeqsUpTo(FaceIds, MaxGeom)]
OtherSolvers == {[kind |-> "other", geometry |-> <<>>]}
Solvers == BoundarySolvers \cup OtherSolvers

\* The null shared_ptr<BoundarySolver>.
NoSolver == [kind |-> "none", geometry |-> <<>>]

VARIABLES
    nprocs,             \* number of MPI ranks
    numberOfComponents, \* size of GetOutputComponents(), the same on all ranks
    pc,                 \* per rank: "idle", a line of Save, "threw", "destroyed"
    error,              \* per rank: the exception that propagated, or "none"
    registered,         \* per rank: Register has returned normally
    registerCalls,      \* number of (collective) Register calls so far
    boundarySolver,     \* per rank: the solver the member points to, or NoSolver
    boundaryDm,         \* per rank: handle of the Boundary Mesh, or NULL
    faceDm,             \* per rank: handle of the Face Sub-mesh, or NULL
    created,            \* per rank: number of meshes created so far (handles 1..created)
    destroyed,          \* per rank: the handles passed to DMDestroy, in order
    heapCorrupted,      \* per rank: an unchecked out-of-chart section write happened
    boundaryFaceLabel,  \* per rank: points of boundaryDm with label value 1
    boundaryFaceSection,\* per rank: boundaryDm's local section, face -> dof (<<>> when unset)
    faceToBoundary,     \* per rank: faceDm's subpoint IS (faceDm point + 1 -> boundaryDm point)
    cEnd,               \* per rank: end of faceDm's height-0 stratum (cStart is 0)
    faceFields,         \* per rank: number of fields added to faceDm
    faceDs,             \* per rank: DMCreateDS(faceDm) has run
    outputSequence,     \* per rank: faceDm's output sequence number and time
    saveCalls,          \* number of Save calls so far
    sequenceNumber,     \* argument of the current Save call
    time,               \* argument of the current Save call
    solution,           \* per rank: the solver's solution at the current Save call
    checkedOut,         \* per rank: the transient buffers and views currently held
    localBoundaryVec,   \* per rank: contents of boundaryDm's pooled local vector
    localFaceVec,       \* per rank: contents of faceDm's pooled local vector
    globalFaceVec,      \* contents of faceDm's pooled global vector (global face -> block)
    localBoundaryArray, \* per rank: "null", "unset" or "data"
    localFaceArray,     \* per rank: "null", "unset" or "data"
    opLog,              \* per rank: the calls of the current Save, in order
    written             \* the records the current Save call has put on the viewer

monRest == <<registered, registerCalls, boundarySolver, boundaryDm, faceDm,
             created, destroyed, heapCorrupted>>
monVars == <<error, monRest>>
meshVars == <<boundaryFaceLabel, boundaryFaceSection, faceToBoundary, cEnd,
              faceFields, faceDs>>
envVars == <<nprocs, numberOfComponents>>
callVars == <<saveCalls, sequenceNumber, time, solution>>
vecVars == <<localBoundaryVec, localFaceVec, globalFaceVec>>
arrayVars == <<localBoundaryArray, localFaceArray>>
bufVars == <<checkedOut, vecVars, arrayVars>>
vars == <<envVars, pc, monVars, meshVars, outputSequence, callVars, bufVars, opLog, written>>

Ranks == 0 .. (nprocs - 1)

(***************************************************************************)
(* Helpers.                                                                *)
(***************************************************************************)
Range(s) == {s[i] : i \in 1 .. Len(s)}

RECURSIVE SortedSeq(_)
SortedSeq(S) ==
    IF S = {} THEN <<>>
    ELSE LET m == CHOOSE x \in S : \A y \in S : x <= y
         IN  <<m>> \o SortedSeq(S \ {m})

Zeros(n) == [i \in 1 .. n |-> 0]

(***************************************************************************)
(* Register, lines 14-86.                                                  *)
(***************************************************************************)

\* PetscSectionSetDof(boundaryFaceSection, point, dof) on a section whose
\* chart is [fStart, fEnd).  PETSc checks the point against the chart only
\* in a debug build; an optimized build writes atlasDof[point - fStart]
\* unchecked, which for a point outside the chart is a write outside the
\* array.  The result says what became of the call.
\* Faulty variant: the dof of a marked face is set to 1, not to the number of
\* output components.
PetscSectionSetDof_One(st, point, dof, checked) ==
    IF point \in Faces
    THEN [st EXCEPT !.dof = [st.dof EXCEPT ![point] = 1]]
    ELSE IF checked
         THEN [st EXCEPT !.failed = TRUE]
         ELSE [st EXCEPT !.corrupted = TRUE]

\* Faulty variant: the dof is added to the dof the point already has.
PetscSectionSetDof_Add(st, point, dof, checked) ==
    IF point \in Faces
    THEN [st EXCEPT !.dof = [st.dof EXCEPT ![point] = @ + dof]]
    ELSE IF checked
         THEN [st EXCEPT !.failed = TRUE]
         ELSE [st EXCEPT !.corrupted = TRUE]

PetscSectionSetDof(st, point, dof, checked) ==
    IF point \in Faces
    THEN [st EXCEPT !.dof = [st.dof EXCEPT ![point] = dof]]
    ELSE IF checked
         THEN [st EXCEPT !.failed = TRUE]
         ELSE [st EXCEPT !.corrupted = TRUE]

\* Lines 52-58: for each gradientStencil, set the label at the face and
\* the dof of the face.  A failing call throws, which ends the loop.
RECURSIVE MarkFaces(_, _, _, _, _)
MarkFaces(geometry, i, st, n, checked) ==
    IF i > Len(geometry) \/ st.failed THEN st
    ELSE LET faceId == geometry[i]
             labelled == [st EXCEPT !.label = st.label \cup {faceId}]
         IN  MarkFaces(geometry, i + 1, PetscSectionSetDof(labelled, faceId, n, checked),
                       n, checked)

\* Lines 43-48: the chart is [fStart, fEnd) and every dof defaults to 0.
EmptySection == [f \in Faces |-> 0]

\* Faulty variant: a boundary without faces is turned down.
SelectFaces_RejectEmpty(solver, n, checked) ==
    IF solver.geometry = <<>>
    THEN [label |-> {}, dof |-> EmptySection, failed |-> TRUE, corrupted |-> FALSE]
    ELSE MarkFaces(solver.geometry, 1,
                   [label |-> {}, dof |-> EmptySection, failed |-> FALSE,
                    corrupted |-> FALSE],
                   n, checked)

\* Lines 32-58 on one rank.
SelectFaces(solver, n, checked) ==
    MarkFaces(solver.geometry, 1,
              [label |-> {}, dof |-> EmptySection, failed |-> FALSE, corrupted |-> FALSE],
              n, checked)

\* Line 66, DMPlexLabelComplete: the closure of every marked point joins
\* the label (the vertices of a marked face).
DMPlexLabelComplete(label) ==
    label \cup UNION {Cone(f) : f \in label \cap Faces}

\* Faulty variant: the sub-mesh lists the vertices before the faces.
SubpointIS_VerticesFirst(label) ==
    SortedSeq(label \cap (vStart .. (vEnd - 1))) \o SortedSeq(label \cap Faces)

\* Line 69, DMPlexFilter, and the subpoint IS it leaves on faceDm: the
\* sub-mesh holds every labelled point of the mesh, the faces first (they
\* are its height-0 stratum, its cells), each stratum in the order of the
\* boundaryDm points.
SubpointIS(label) ==
    SortedSeq(label \cap Faces) \o SortedSeq(label \cap (vStart .. (vEnd - 1)))

\* The faces of rank p's Face Sub-mesh, i.e. faceToBoundary over [0, cEnd).
SubmeshFaces(is, ce) == {is[i] : i \in 1 .. ce}

\* Faulty variant: the Boundary Mesh is cloned before the solver's type is checked.
RejectSolver_AfterClone(old) ==
    [old EXCEPT !.boundarySolver = NoSolver, !.registered = FALSE,
                !.boundaryDm = old.created + 1, !.created = old.created + 1,
                !.error = "invalid_argument", !.pc = "threw"]

\* Lines 18-21: the dynamic cast of a solver that is no BoundarySolver
\* yields null, and Register throws std::invalid_argument before any mesh
\* is made.
RejectSolver(old) ==
    [old EXCEPT !.boundarySolver = NoSolver, !.registered = FALSE,
                !.error = "invalid_argument", !.pc = "threw"]

\* The outcome of Register on rank p, handed `solver`; `checked` says
\* whether PETSc checks section points (a debug build).  The record holds
\* the rank's members and the contents of its meshes when Register returns
\* or throws.
RegisterRank(p, solver, checked) ==
    LET old == [pc |-> pc[p], error |-> error[p], registered |-> registered[p],
                boundarySolver |-> boundarySolver[p], boundaryDm |-> boundaryDm[p],
                faceDm |-> faceDm[p], created |-> created[p],
                heapCorrupted |-> heapCorrupted[p],
                boundaryFaceLabel |-> boundaryFaceLabel[p],
                boundaryFaceSection |-> boundaryFaceSection[p],
                faceToBoundary |-> faceToBoundary[p], cEnd |-> cEnd[p],
                faceFields |-> faceFields[p], faceDs |-> faceDs[p],
                outputSequence |-> outputSequence[p],
                localBoundaryVec |-> localBoundaryVec[p],
                localFaceVec |-> localFaceVec[p]]
        n == numberOfComponents
        sel == SelectFaces(solver, n, checked)
        label == DMPlexLabelComplete(sel.label)
        is == SubpointIS(label)
        cells == Cardinality(label \cap Faces)
    IN  IF solver.kind # "boundary"
        THEN RejectSolver(old)
        ELSE IF sel.failed
        THEN \* lines 29-57: boundaryDm is cloned and labelled, then
             \* PetscSectionSetDof fails and checkError throws
             [old EXCEPT !.boundarySolver = solver, !.registered = FALSE,
                         !.boundaryDm = old.created + 1, !.created = old.created + 1,
                         !.boundaryFaceLabel = sel.label, !.boundaryFaceSection = <<>>,
                         !.error = "petsc", !.pc = "threw"]
        ELSE \* lines 29-85
             [old EXCEPT !.boundarySolver = solver, !.registered = TRUE,
                         !.boundaryDm = old.created + 1,
                         !.faceDm = old.created + 2, !.created = old.created + 2,
                         !.heapCorrupted = old.heapCorrupted \/ sel.corrupted,
                         !.boundaryFaceLabel = label,
                         !.boundaryFaceSection = sel.dof,
                         !.faceToBoundary = is, !.cEnd = cells,
                         !.faceFields = n, !.faceDs = TRUE,
                         !.outputSequence = [num |-> -1, val |-> 0],
                         !.localBoundaryVec = [f \in Faces |-> Zeros(sel.dof[f])],
                         !.localFaceVec = [c \in 1 .. cells |-> Zeros(n)]]

\* The solvers the ranks are handed in one Register call: all of one type,
\* each with the boundary geometry of its rank.  A single rank is handed
\* every solver; several ranks are handed the geometries that list the
\* first faces of the mesh in ascending order, which already give the
\* ranks shared faces, faces only one rank holds and empty sub-meshes.
AscendingGeometries ==
    {SubSeq(SortedSeq(Faces), 1, n) : n \in 0 .. (IF MaxGeom < NumFaces THEN MaxGeom ELSE NumFaces)}
ParallelSolvers ==
    [kind : {"boundary"}, geometry : AscendingGeometries] \cup OtherSolvers
SolverChoices ==
    IF nprocs = 1 THEN [Ranks -> Solvers]
    ELSE {s \in [Ranks -> ParallelSolvers] : \A p, q \in Ranks : s[p].kind = s[q].kind}

\* Register is called while the solvers are set up, before the first
\* snapshot is saved.
CanRegister ==
    /\ \A p \in Ranks : pc[p] = "idle" /\ ~heapCorrupted[p]
    /\ saveCalls = 0
    /\ registerCalls < MaxRegisters

\* Every rank calls Register (lines 14-86).
Register(solverOf, checked) ==
    /\ CanRegister
    /\ LET r == [p \in Ranks |-> RegisterRank(p, solverOf[p], checked)]
           faces == UNION {SubmeshFaces(r[p].faceToBoundary, r[p].cEnd) : p \in Ranks}
       IN  /\ pc' = [p \in Ranks |-> r[p].pc]
           /\ error' = [p \in Ranks |-> r[p].error]
           /\ registered' = [p \in Ranks |-> r[p].registered]
           /\ boundarySolver' = [p \in Ranks |-> r[p].boundarySolver]
           /\ boundaryDm' = [p \in Ranks |-> r[p].boundaryDm]
           /\ faceDm' = [p \in Ranks |-> r[p].faceDm]
           /\ created' = [p \in Ranks |-> r[p].created]
           /\ heapCorrupted' = [p \in Ranks |-> r[p].heapCorrupted]
           /\ boundaryFaceLabel' = [p \in Ranks |-> r[p].boundaryFaceLabel]
           /\ boundaryFaceSection' = [p \in Ranks |-> r[p].boundaryFaceSection]
           /\ faceToBoundary' = [p \in Ranks |-> r[p].faceToBoundary]
           /\ cEnd' = [p \in Ranks |-> r[p].cEnd]
           /\ faceFields' = [p \in Ranks |-> r[p].faceFields]
           /\ faceDs' = [p \in Ranks |-> r[p].faceDs]
           /\ outputSequence' = [p \in Ranks |-> r[p].outputSequence]
           /\ localBoundaryVec' = [p \in Ranks |-> r[p].localBoundaryVec]
           /\ localFaceVec' = [p \in Ranks |-> r[p].localFaceVec]
           /\ globalFaceVec' = [g \in faces |-> Zeros(numberOfComponents)]
    /\ registerCalls' = registerCalls + 1
    /\ UNCHANGED <<envVars, destroyed, callVars, checkedOut, localBoundaryArray,
                   localFaceArray, opLog, written>>

(***************************************************************************)
(* ~BoundarySolverMonitor, lines 4-12.                                     *)
(***************************************************************************)
DestroyedBy(bdm, fdm) ==
    (IF bdm # NULL THEN <<bdm>> ELSE <<>>) \o (IF fdm # NULL THEN <<fdm>> ELSE <<>>)

Destroy(p) ==
    /\ pc[p] \in {"idle", "threw"}
    /\ destroyed' = [destroyed EXCEPT ![p] = @ \o DestroyedBy(boundaryDm[p], faceDm[p])]
    /\ boundaryDm' = [boundaryDm EXCEPT ![p] = NULL]
    /\ faceDm' = [faceDm EXCEPT ![p] = NULL]
    /\ pc' = [pc EXCEPT ![p] = "destroyed"]
    /\ UNCHANGED <<envVars, error, registered, registerCalls, boundarySolver, created,
                   heapCorrupted, meshVars, outputSequence, callVars, bufVars, opLog,
                   written>>

(***************************************************************************)
(* Save, lines 88-177, statement by statement.  pc[p] is the line rank p   *)
(* executes next.  The collective calls (DMView, DMGlobalToLocalBegin/End, *)
(* DMLocalToGlobal, VecView) are entered by all ranks together.            *)
(***************************************************************************)
Goto(p, l) == pc' = [pc EXCEPT ![p] = l]
Log(p, op) == opLog' = [opLog EXCEPT ![p] = Append(@, op)]
Acquire(p, b) == checkedOut' = [checkedOut EXCEPT ![p] = @ \cup {b}]
Release(p, b) == checkedOut' = [checkedOut EXCEPT ![p] = @ \ {b}]
AllAt(l) == \A p \in Ranks : pc[p] = l
AllGoto(l) == pc' = [p \in Ranks |-> l]
AllLog(op) == opLog' = [p \in Ranks |-> Append(opLog[p], op)]
\* checkError on a failed call: the exception leaves Save.
Throw(p) ==
    /\ pc' = [pc EXCEPT ![p] = "threw"]
    /\ error' = [error EXCEPT ![p] = "petsc"]
AllThrow ==
    /\ pc' = [p \in Ranks |-> "threw"]
    /\ error' = [p \in Ranks |-> "petsc"]

\* The number of snapshots a run saves: MaxSaves on a single rank, one on
\* several ranks (a later snapshot differs from the first only in what the
\* pooled vectors and the output tag hold, which the single rank covers).
SaveLimit == IF nprocs = 1 THEN MaxSaves ELSE 1

\* The serializer calls Save on every rank with the same sequence number
\* and time; the time advances with every snapshot, and each rank's part
\* of the solver's solution is whatever the solver holds at the call (a
\* multiple `sol[p]` of a reference field).  Behaviour after an
\* unchecked write outside the section's array is undefined and not
\* followed further.
SaveCall(seq, sol) ==
    /\ \A p \in Ranks : pc[p] = "idle" /\ registered[p] /\ ~heapCorrupted[p]
    /\ saveCalls < SaveLimit
    /\ saveCalls' = saveCalls + 1
    /\ sequenceNumber' = seq
    /\ time' = saveCalls + 1
    /\ solution' = sol
    /\ AllGoto("L91")
    /\ opLog' = [p \in Ranks |-> <<>>]
    /\ written' = <<>>
    /\ UNCHANGED <<envVars, monVars, meshVars, outputSequence, bufVars>>

\* Faulty variant: every output stores the faceDm.
IsFirstOutput_Always(seq) == TRUE

\* Line 91: the first output also stores the faceDm.
IsFirstOutput(seq) == seq = 0

\* Lines 91-93, sequenceNumber == 0: DMView(faceDm, viewer).
L91_DMView ==
    /\ AllAt("L91")
    /\ IsFirstOutput(sequenceNumber)
    /\ written' = Append(written, [kind |-> "topology",
                                   points |-> [p \in Ranks |-> faceToBoundary[p]]])
    /\ AllGoto("L96")
    /\ AllLog("DMView")
    /\ UNCHANGED <<envVars, monVars, meshVars, outputSequence, callVars, bufVars>>

\* Lines 91-93, any other sequenceNumber.
L91_Skip(p) ==
    /\ pc[p] = "L91"
    /\ ~IsFirstOutput(sequenceNumber)
    /\ Goto(p, "L96")
    /\ UNCHANGED <<envVars, monVars, meshVars, outputSequence, callVars, bufVars, opLog,
                   written>>

\* Faulty variant: the output sequence number of faceDm is left as it was.
DMSetOutputSequenceNumber_Stale(tag, num, val) == tag

\* Line 96: DMSetOutputSequenceNumber(faceDm, sequenceNumber, time).
DMSetOutputSequenceNumber(tag, num, val) == [num |-> num, val |-> val]

L96_SetOutputSequenceNumber(p) ==
    /\ pc[p] = "L96"
    /\ outputSequence' = [outputSequence EXCEPT
                             ![p] = DMSetOutputSequenceNumber(@, sequenceNumber, time)]
    /\ Goto(p, "L100")
    /\ Log(p, "DMSetOutputSequenceNumber")
    /\ UNCHANGED <<envVars, monVars, meshVars, callVars, bufVars, written>>

\* Line 100: DMGetLocalVector(solver dm, &locXVec).
L100_GetLocXVec(p) ==
    /\ pc[p] = "L100"
    /\ Acquire(p, "locXVec")
    /\ Goto(p, "L101")
    /\ Log(p, "DMGetLocalVector(locXVec)")
    /\ UNCHANGED <<envVars, monVars, meshVars, outputSequence, callVars, vecVars,
                   arrayVars, written>>

\* Line 101: DMGlobalToLocalBegin on the solution vector; a failing
\* exchange fails on every rank.
L101_GlobalToLocalBegin(ok) ==
    /\ AllAt("L101")
    /\ AllLog("DMGlobalToLocalBegin")
    /\ IF ok THEN AllGoto("L105") /\ UNCHANGED error ELSE AllThrow
    /\ UNCHANGED <<envVars, monRest, meshVars, outputSequence, callVars, bufVars, written>>

\* Line 105: DMGetLocalVector(boundaryDm, &localBoundaryVec); the vector
\* comes from boundaryDm's pool with whatever it held when it was restored.
L105_GetLocalBoundaryVec(p) ==
    /\ pc[p] = "L105"
    /\ Acquire(p, "localBoundaryVec")
    /\ Goto(p, "L106")
    /\ Log(p, "DMGetLocalVector(localBoundaryVec)")
    /\ UNCHANGED <<envVars, monVars, meshVars, outputSequence, callVars, vecVars,
                   arrayVars, written>>

\* Faulty variant: the vector keeps what it held.
VecZeroEntries_Keep(vec) == vec

\* VecZeroEntries on a vector held as point -> block.
VecZeroEntries(vec) == [pt \in DOMAIN vec |-> Zeros(Len(vec[pt]))]

\* Line 106: VecZeroEntries(localBoundaryVec).
L106_ZeroLocalBoundaryVec(p) ==
    /\ pc[p] = "L106"
    /\ localBoundaryVec' = [localBoundaryVec EXCEPT ![p] = VecZeroEntries(@)]
    /\ Goto(p, "L109")
    /\ Log(p, "VecZeroEntries(localBoundaryVec)")
    /\ UNCHANGED <<envVars, monVars, meshVars, outputSequence, callVars, checkedOut,
                   localFaceVec, globalFaceVec, arrayVars, written>>

\* Line 109: DMGlobalToLocalEnd.
L109_GlobalToLocalEnd(ok) ==
    /\ AllAt("L109")
    /\ AllLog("DMGlobalToLocalEnd")
    /\ IF ok THEN AllGoto("L112") /\ UNCHANGED error ELSE AllThrow
    /\ UNCHANGED <<envVars, monRest, meshVars, outputSequence, callVars, bufVars, written>>

\* BoundarySolver::ComputeRHSFunction with the output functions: it adds
\* its result to the block of every face that has dofs.  The result is
\* `scale` times a reference field that differs from face to face and from
\* component to component.
ComputeRHSFunction(vec, scale) ==
    [f \in DOMAIN vec |-> [c \in 1 .. Len(vec[f]) |-> vec[f][c] + scale * (10 * f + c)]]

\* Line 112: compute the rhs; the routine reports failure or fills
\* localBoundaryVec.
L112_ComputeRHS(p, ok, scale) ==
    /\ pc[p] = "L112"
    /\ Log(p, "ComputeRHSFunction")
    /\ IF ~ok
       THEN Throw(p) /\ UNCHANGED localBoundaryVec
       ELSE /\ localBoundaryVec' = [localBoundaryVec EXCEPT
                                       ![p] = ComputeRHSFunction(@, scale)]
            /\ Goto(p, "L116")
            /\ UNCHANGED error
    /\ UNCHANGED <<envVars, monRest, meshVars, outputSequence, callVars, checkedOut,
                   localFaceVec, globalFaceVec, arrayVars, written>>

\* Line 116: DMGetLocalVector(faceDm, &localFaceVec), from faceDm's pool.
L116_GetLocalFaceVec(p) ==
    /\ pc[p] = "L116"
    /\ Acquire(p, "localFaceVec")
    /\ Goto(p, "L117")
    /\ Log(p, "DMGetLocalVector(localFaceVec)")
    /\ UNCHANGED <<envVars, monVars, meshVars, outputSequence, callVars, vecVars,
                   arrayVars, written>>

\* Line 117: VecZeroEntries(localFaceVec).
L117_ZeroLocalFaceVec(p) ==
    /\ pc[p] = "L117"
    /\ localFaceVec' = [localFaceVec EXCEPT ![p] = VecZeroEntries(@)]
    /\ Goto(p, "L121")
    /\ Log(p, "VecZeroEntries(localFaceVec)")
    /\ UNCHANGED <<envVars, monVars, meshVars, outputSequence, callVars, checkedOut,
                   localBoundaryVec, globalFaceVec, arrayVars, written>>

\* VecGetArray / VecGetArrayRead: the pointer to the local entries, null
\* for a vector without entries.
VecGetArray(vec) ==
    IF \E pt \in DOMAIN vec : Len(vec[pt]) > 0 THEN "data" ELSE "null"

\* Line 121: VecGetArrayRead(localBoundaryVec, &localBoundaryArray).
L121_GetLocalBoundaryArray(p) ==
    /\ pc[p] = "L121"
    /\ localBoundaryArray' = [localBoundaryArray EXCEPT
                                 ![p] = VecGetArray(localBoundaryVec[p])]
    /\ Acquire(p, "localBoundaryArray")
    /\ Goto(p, "L123")
    /\ Log(p, "VecGetArrayRead(localBoundaryVec)")
    /\ UNCHANGED <<envVars, monVars, meshVars, outputSequence, callVars, vecVars,
                   localFaceArray, written>>

\* Line 123: VecGetArray(localFaceVec, &localFaceArray).
L123_GetLocalFaceArray(p) ==
    /\ pc[p] = "L123"
    /\ localFaceArray' = [localFaceArray EXCEPT ![p] = VecGetArray(localFaceVec[p])]
    /\ Acquire(p, "localFaceArray")
    /\ Goto(p, "L136")
    /\ Log(p, "VecGetArray(localFaceVec)")
    /\ UNCHANGED <<envVars, monVars, meshVars, outputSequence, callVars, vecVars,
                   localBoundaryArray, written>>

\* Lines 136-137: DMPlexGetSubpointIS and ISGetIndices(faceIs, &faceToBoundary).
L136_GetIndices(p) ==
    /\ pc[p] = "L136"
    /\ Acquire(p, "faceToBoundary")
    /\ Goto(p, "L140")
    /\ Log(p, "ISGetIndices(faceIs)")
    /\ UNCHANGED <<envVars, monVars, meshVars, outputSequence, callVars, vecVars,
                   arrayVars, written>>

\* Line 127: VecGetBlockSize(localFaceVec, &dataSize): the common number of
\* dofs of the points that have any, 1 for a vector without entries.
VecGetBlockSize(vec) ==
    IF \E pt \in DOMAIN vec : Len(vec[pt]) > 0
    THEN Len(vec[CHOOSE pt \in DOMAIN vec : Len(vec[pt]) > 0])
    ELSE 1

\* Line 147: DMPlexPointLocalRead(boundaryDm, boundaryPt, localBoundaryArray,
\* &localBoundaryData): the block of the point in boundaryDm's local
\* section, null when the point has no dof.
DMPlexPointLocalRead(section, boundaryPt, vec) ==
    IF boundaryPt \in DOMAIN section /\ section[boundaryPt] > 0
    THEN [valid |-> TRUE, data |-> vec[boundaryPt]]
    ELSE [valid |-> FALSE, data |-> <<>>]

\* Line 148: DMPlexPointLocalRef(faceDm, facePt, localFaceArray,
\* &globalFaceData): null when the point has no dof in faceDm's section.
DMPlexPointLocalRef(vec, facePt) ==
    IF facePt + 1 \in DOMAIN vec /\ Len(vec[facePt + 1]) > 0
    THEN [valid |-> TRUE, data |-> vec[facePt + 1]]
    ELSE [valid |-> FALSE, data |-> <<>>]

\* Faulty variant: nothing is copied.
PetscArraycpy_Nothing(dst, src, dataSize) == dst

\* Line 150: PetscArraycpy(globalFaceData, localBoundaryData, dataSize).
PetscArraycpy(dst, src, dataSize) ==
    [i \in 1 .. Len(dst) |-> IF i <= dataSize THEN src[i] ELSE dst[i]]

\* Lines 141-152: the loop over facePt in [cStart, cEnd), from facePt on.
\* st.vec is the local face vector so far, st.copies the number of
\* PetscArraycpy calls made.
RECURSIVE CopyFaces(_, _, _)
CopyFaces(p, facePt, st) ==
    IF facePt >= cEnd[p] THEN st
    ELSE LET boundaryPt == faceToBoundary[p][facePt + 1]
             localBoundaryData == DMPlexPointLocalRead(boundaryFaceSection[p], boundaryPt,
                                                       localBoundaryVec[p])
             globalFaceData == DMPlexPointLocalRef(st.vec, facePt)
             dataSize == VecGetBlockSize(localFaceVec[p])
         IN  IF globalFaceData.valid /\ localBoundaryData.valid
             THEN CopyFaces(p, facePt + 1,
                            [vec |-> [st.vec EXCEPT ![facePt + 1] =
                                         PetscArraycpy(globalFaceData.data,
                                                       localBoundaryData.data, dataSize)],
                             copies |-> st.copies + 1])
             ELSE CopyFaces(p, facePt + 1, st)

\* Lines 139-153.
CopyToFaceVec(p) ==
    IF localBoundaryArray[p] = "data" /\ localFaceArray[p] = "data"
    THEN CopyFaces(p, 0, [vec |-> localFaceVec[p], copies |-> 0])
    ELSE [vec |-> localFaceVec[p], copies |-> 0]

L140_Copy(p) ==
    /\ pc[p] = "L140"
    /\ LET r == CopyToFaceVec(p)
       IN  /\ localFaceVec' = [localFaceVec EXCEPT ![p] = r.vec]
           /\ opLog' = [opLog EXCEPT ![p] = @ \o [i \in 1 .. r.copies |-> "PetscArraycpy"]]
    /\ Goto(p, "L156")
    /\ UNCHANGED <<envVars, monVars, meshVars, outputSequence, callVars, checkedOut,
                   localBoundaryVec, globalFaceVec, arrayVars, written>>

\* Faulty variant: restoring the indices empties the index set.
L156_DropIndices(p) ==
    /\ pc[p] = "L156"
    /\ Release(p, "faceToBoundary")
    /\ Goto(p, "L158")
    /\ Log(p, "ISRestoreIndices(faceIs)")
    /\ faceToBoundary' = [faceToBoundary EXCEPT ![p] = <<>>]
    /\ UNCHANGED <<envVars, monVars, boundaryFaceLabel, boundaryFaceSection, cEnd,
                   faceFields, faceDs, outputSequence, callVars, vecVars, arrayVars,
                   written>>

\* Line 156: ISRestoreIndices(faceIs, &faceToBoundary).
L156_RestoreIndices(p) ==
    /\ pc[p] = "L156"
    /\ Release(p, "faceToBoundary")
    /\ Goto(p, "L158")
    /\ Log(p, "ISRestoreIndices(faceIs)")
    /\ UNCHANGED <<envVars, monVars, meshVars, outputSequence, callVars, vecVars,
                   arrayVars, written>>

\* Line 158: VecRestoreArrayRead(localBoundaryVec, &localBoundaryArray).
L158_RestoreLocalBoundaryArray(p) ==
    /\ pc[p] = "L158"
    /\ localBoundaryArray' = [localBoundaryArray EXCEPT ![p] = "unset"]
    /\ Release(p, "localBoundaryArray")
    /\ Goto(p, "L159")
    /\ Log(p, "VecRestoreArrayRead(localBoundaryVec)")
    /\ UNCHANGED <<envVars, monVars, meshVars, outputSequence, callVars, vecVars,
                   localFaceArray, written>>

\* Faulty variant: the vector is written without the reduction.
L159_SkipReduction(p) ==
    /\ pc[p] = "L159"
    /\ localFaceArray' = [localFaceArray EXCEPT ![p] = "unset"]
    /\ Release(p, "localFaceArray")
    /\ Goto(p, "L169")
    /\ Log(p, "VecRestoreArray(localFaceVec)")
    /\ UNCHANGED <<envVars, monVars, meshVars, outputSequence, callVars, vecVars,
                   localBoundaryArray, written>>

\* Line 159: VecRestoreArray(localFaceVec, &localFaceArray).
L159_RestoreLocalFaceArray(p) ==
    /\ pc[p] = "L159"
    /\ localFaceArray' = [localFaceArray EXCEPT ![p] = "unset"]
    /\ Release(p, "localFaceArray")
    /\ Goto(p, "L163")
    /\ Log(p, "VecRestoreArray(localFaceVec)")
    /\ UNCHANGED <<envVars, monVars, meshVars, outputSequence, callVars, vecVars,
                   localBoundaryArray, written>>

\* Lines 163-164: DMGetGlobalVector(faceDm, &globalFaceVec), from faceDm's
\* pool, and its name.
L163_GetGlobalFaceVec(p) ==
    /\ pc[p] = "L163"
    /\ Acquire(p, "globalFaceVec")
    /\ Goto(p, "L165")
    /\ Log(p, "DMGetGlobalVector(globalFaceVec)")
    /\ UNCHANGED <<envVars, monVars, meshVars, outputSequence, callVars, vecVars,
                   arrayVars, written>>

\* The faces of the Face Sub-mesh over all ranks, and the rank that owns
\* each in the global vector (the lowest rank that holds it).
GlobalFaces == UNION {SubmeshFaces(faceToBoundary[p], cEnd[p]) : p \in Ranks}
Holders(g) == {p \in Ranks : g \in SubmeshFaces(faceToBoundary[p], cEnd[p])}
Owner(g) == CHOOSE p \in Holders(g) : \A q \in Holders(g) : p <= q
FacePtOf(p, g) == CHOOSE i \in 1 .. cEnd[p] : faceToBoundary[p][i] = g

\* Faulty variant: a rank whose sub-mesh is empty goes past the reduction.
L165_SkipWhenEmpty(p) ==
    /\ pc[p] = "L165"
    /\ globalFaceVec' = [g \in DOMAIN globalFaceVec |->
                            IF Owner(g) = p THEN Zeros(Len(globalFaceVec[g]))
                            ELSE globalFaceVec[g]]
    /\ Goto(p, IF cEnd[p] = 0 THEN "L169" ELSE "L166")
    /\ Log(p, "VecZeroEntries(globalFaceVec)")
    /\ UNCHANGED <<envVars, monVars, meshVars, outputSequence, callVars, checkedOut,
                   localBoundaryVec, localFaceVec, arrayVars, written>>

\* Line 165: VecZeroEntries(globalFaceVec): each rank zeroes the part of
\* the global vector it owns.
L165_ZeroGlobalFaceVec(p) ==
    /\ pc[p] = "L165"
    /\ globalFaceVec' = [g \in DOMAIN globalFaceVec |->
                            IF Owner(g) = p THEN Zeros(Len(globalFaceVec[g]))
                            ELSE globalFaceVec[g]]
    /\ Goto(p, "L166")
    /\ Log(p, "VecZeroEntries(globalFaceVec)")
    /\ UNCHANGED <<envVars, monVars, meshVars, outputSequence, callVars, checkedOut,
                   localBoundaryVec, localFaceVec, arrayVars, written>>

RECURSIVE SumOver(_, _, _)
SumOver(S, g, c) ==
    IF S = {} THEN 0
    ELSE LET p == CHOOSE q \in S : TRUE
         IN  localFaceVec[p][FacePtOf(p, g)][c] + SumOver(S \ {p}, g, c)

\* DMLocalToGlobal(faceDm, localFaceVec, mode, globalFaceVec): with
\* ADD_VALUES every rank's local value of a point is added to the global
\* value; with INSERT_VALUES the owner's local value replaces it.
DMLocalToGlobal(mode, glob) ==
    [g \in DOMAIN glob |->
        [c \in 1 .. Len(glob[g]) |->
            IF mode = "ADD_VALUES"
            THEN glob[g][c] + SumOver(Holders(g), g, c)
            ELSE localFaceVec[Owner(g)][FacePtOf(Owner(g), g)][c]]]

\* Faulty variant: the local values are inserted, not added.
LocalToGlobalMode_Insert == "INSERT_VALUES"

\* Line 166: the mode handed to DMLocalToGlobal.
LocalToGlobalMode == "ADD_VALUES"

L166_LocalToGlobal(ok) ==
    /\ AllAt("L166")
    /\ AllLog("DMLocalToGlobal")
    /\ IF ok
       THEN /\ globalFaceVec' = DMLocalToGlobal(LocalToGlobalMode, globalFaceVec)
            /\ AllGoto("L169")
            /\ UNCHANGED error
       ELSE AllThrow /\ UNCHANGED globalFaceVec
    /\ UNCHANGED <<envVars, monRest, meshVars, outputSequence, callVars, checkedOut,
                   localBoundaryVec, localFaceVec, arrayVars, written>>

\* Line 169: VecView(globalFaceVec, viewer): the vector goes to the viewer
\* under the output sequence number and time of its dm, faceDm.
VecView(tag, vec) == [kind |-> "vec", num |-> tag.num, val |-> tag.val, values |-> vec]

L169_VecView ==
    /\ AllAt("L169")
    /\ written' = Append(written, VecView(outputSequence[0], globalFaceVec))
    /\ AllGoto("L170")
    /\ AllLog("VecView")
    /\ UNCHANGED <<envVars, monVars, meshVars, outputSequence, callVars, bufVars>>

\* Line 170: DMRestoreGlobalVector(faceDm, &globalFaceVec).
L170_RestoreGlobalFaceVec(p) ==
    /\ pc[p] = "L170"
    /\ Release(p, "globalFaceVec")
    /\ Goto(p, "L173")
    /\ Log(p, "DMRestoreGlobalVector(globalFaceVec)")
    /\ UNCHANGED <<envVars, monVars, meshVars, outputSequence, callVars, vecVars,
                   arrayVars, written>>

\* Faulty variant: localFaceVec is not given back.
L173_KeepLocalFaceVec(p) ==
    /\ pc[p] = "L173"
    /\ Goto(p, "L174")
    /\ UNCHANGED <<envVars, monVars, meshVars, outputSequence, callVars, bufVars, opLog,
                   written>>

\* Line 173: DMRestoreLocalVector(faceDm, &localFaceVec).
L173_RestoreLocalFaceVec(p) ==
    /\ pc[p] = "L173"
    /\ Release(p, "localFaceVec")
    /\ Goto(p, "L174")
    /\ Log(p, "DMRestoreLocalVector(localFaceVec)")
    /\ UNCHANGED <<envVars, monVars, meshVars, outputSequence, callVars, vecVars,
                   arrayVars, written>>

\* Line 174: DMRestoreLocalVector(solver dm, &locXVec).
L174_RestoreLocXVec(p) ==
    /\ pc[p] = "L174"
    /\ Release(p, "locXVec")
    /\ Goto(p, "L175")
    /\ Log(p, "DMRestoreLocalVector(locXVec)")
    /\ UNCHANGED <<envVars, monVars, meshVars, outputSequence, callVars, vecVars,
                   arrayVars, written>>

\* Lines 175-176: DMRestoreLocalVector(boundaryDm, &localBoundaryVec) and
\* Save returns.
L175_RestoreLocalBoundaryVec(p) ==
    /\ pc[p] = "L175"
    /\ Release(p, "localBoundaryVec")
    /\ Goto(p, "idle")
    /\ Log(p, "DMRestoreLocalVector(localBoundaryVec)")
    /\ UNCHANGED <<envVars, monVars, meshVars, outputSequence, callVars, vecVars,
                   arrayVars, written>>

(***************************************************************************)
(* The initial state: the monitors are constructed, nothing is registered. *)
(***************************************************************************)
InitRanks(n) ==
    /\ nprocs = n
    /\ numberOfComponents \in 0 .. MaxComponents
    /\ pc = [p \in 0 .. (n - 1) |-> "idle"]
    /\ error = [p \in 0 .. (n - 1) |-> "none"]
    /\ registered = [p \in 0 .. (n - 1) |-> FALSE]
    /\ registerCalls = 0
    /\ boundarySolver = [p \in 0 .. (n - 1) |-> NoSolver]
    /\ boundaryDm = [p \in 0 .. (n - 1) |-> NULL]
    /\ faceDm = [p \in 0 .. (n - 1) |-> NULL]
    /\ created = [p \in 0 .. (n - 1) |-> 0]
    /\ destroyed = [p \in 0 .. (n - 1) |-> <<>>]
    /\ heapCorrupted = [p \in 0 .. (n - 1) |-> FALSE]
    /\ boundaryFaceLabel = [p \in 0 .. (n - 1) |-> {}]
    /\ boundaryFaceSection = [p \in 0 .. (n - 1) |-> <<>>]
    /\ faceToBoundary = [p \in 0 .. (n - 1) |-> <<>>]
    /\ cEnd = [p \in 0 .. (n - 1) |-> 0]
    /\ faceFields = [p \in 0 .. (n - 1) |-> 0]
    /\ faceDs = [p \in 0 .. (n - 1) |-> FALSE]
    /\ outputSequence = [p \in 0 .. (n - 1) |-> [num |-> -1, val |-> 0]]
    /\ saveCalls = 0
    /\ sequenceNumber = 0
    /\ time = 0
    /\ solution = [p \in 0 .. (n - 1) |-> 0]
    /\ checkedOut = [p \in 0 .. (n - 1) |-> {}]
    /\ localBoundaryVec = [p \in 0 .. (n - 1) |-> <<>>]
    /\ localFaceVec = [p \in 0 .. (n - 1) |-> <<>>]
    /\ globalFaceVec = <<>>
    /\ localBoundaryArray = [p \in 0 .. (n - 1) |-> "unset"]
    /\ localFaceArray = [p \in 0 .. (n - 1) |-> "unset"]
    /\ opLog = [p \in 0 .. (n - 1) |-> <<>>]
    /\ written = <<>>

Init == InitRanks(1)

Next ==
    \/ CanRegister /\ \E s \in SolverChoices, checked \in BOOLEAN : Register(s, checked)
    \/ \E seq \in 0 .. MaxSeq, sol \in [Ranks -> Values] : SaveCall(seq, sol)
    \/ L91_DMView
    \/ \E p \in Ranks : L91_Skip(p)
    \/ \E p \in Ranks : L96_SetOutputSequenceNumber(p)
    \/ \E p \in Ranks : L100_GetLocXVec(p)
    \/ \E ok \in BOOLEAN : L101_GlobalToLocalBegin(ok)
    \/ \E p \in Ranks : L105_GetLocalBoundaryVec(p)
    \/ \E p \in Ranks : L106_ZeroLocalBoundaryVec(p)
    \/ \E ok \in BOOLEAN : L109_GlobalToLocalEnd(ok)
    \/ \E p \in Ranks : L112_ComputeRHS(p, TRUE, solution[p])
    \/ \E p \in Ranks : L112_ComputeRHS(p, FALSE, 0)
    \/ \E p \in Ranks : L116_GetLocalFaceVec(p)
    \/ \E p \in Ranks : L117_ZeroLocalFaceVec(p)
    \/ \E p \in Ranks : L121_GetLocalBoundaryArray(p)
    \/ \E p \in Ranks : L123_GetLocalFaceArray(p)
    \/ \E p \in Ranks : L136_GetIndices(p)
    \/ \E p \in Ranks : L140_Copy(p)
    \/ \E p \in Ranks : L156_RestoreIndices(p)
    \/ \E p \in Ranks : L158_RestoreLocalBoundaryArray(p)
    \/ \E p \in Ranks : L159_RestoreLocalFaceArray(p)
    \/ \E p \in Ranks : L163_GetGlobalFaceVec(p)
    \/ \E p \in Ranks : L165_ZeroGlobalFaceVec(p)
    \/ \E ok \in BOOLEAN : L166_LocalToGlobal(ok)
    \/ L169_VecView
    \/ \E p \in Ranks : L170_RestoreGlobalFaceVec(p)
    \/ \E p \in Ranks : L173_RestoreLocalFaceVec(p)
    \/ \E p \in Ranks : L174_RestoreLocXVec(p)
    \/ \E p \in Ranks : L175_RestoreLocalBoundaryVec(p)
    \/ \E p \in Ranks : Destroy(p)

Spec == Init /\ [][Next]_vars

\* The same program on two ranks.
InitPar == InitRanks(2)
SpecPar == InitPar /\ [][Next]_vars

(***************************************************************************)
(* The claims.                                                             *)
(***************************************************************************)

\* Rank p holds a BoundarySolver whose geometry entries all carry face ids
\* inside [fStart, fEnd), and Register on it has returned.
RegisteredValid(p) ==
    /\ registered[p]
    /\ boundarySolver[p].kind = "boundary"
    /\ Range(boundarySolver[p].geometry) \subseteq Faces

\* C1: once Register has returned on a boundary solver whose geometry
\* entries all carry face ids inside [fStart, fEnd), the Face Layout covers
\* [fStart, fEnd) and gives numberOfComponents dofs to every face the
\* geometry names and 0 dofs to every other face.
C1_FaceLayout ==
    \A p \in Ranks :
        RegisteredValid(p)
        => /\ DOMAIN boundaryFaceSection[p] = Faces
           /\ \A f \in Faces :
                 boundaryFaceSection[p][f] =
                     IF f \in Range(boundarySolver[p].geometry)
                     THEN numberOfComponents ELSE 0

\* C1's case: a registered monitor whose layout gives a marked face
\* numberOfComponents > 0 dofs and an unmarked face none.
C1_Witness ==
    \E p \in Ranks :
        /\ RegisteredValid(p) /\ numberOfComponents > 0
        /\ \E f, g \in Faces :
              /\ f \in Range(boundarySolver[p].geometry)
              /\ g \notin Range(boundarySolver[p].geometry)
              /\ boundaryFaceSection[p][f] = numberOfComponents
              /\ boundaryFaceSection[p][g] = 0

\* The value rank p holds in its local Face Sub-mesh buffer for component c
\* of face g, 0 when g is no point of its sub-mesh.
LocalValue(p, g, c) ==
    IF \E i \in 1 .. cEnd[p] : faceToBoundary[p][i] = g
    THEN localFaceVec[p][CHOOSE i \in 1 .. cEnd[p] : faceToBoundary[p][i] = g][c]
    ELSE 0

\* C2: on two ranks, once DMLocalToGlobal has returned the global vector
\* holds, for every face of the Face Sub-mesh and every component, the sum
\* of the values the two ranks hold for it in their local buffers.
C2_AdditiveReduction ==
    (nprocs = 2 /\ AllAt("L169"))
    => /\ DOMAIN globalFaceVec = GlobalFaces
       /\ \A g \in GlobalFaces :
             /\ Len(globalFaceVec[g]) = numberOfComponents
             /\ \A c \in 1 .. numberOfComponents :
                   globalFaceVec[g][c] = LocalValue(0, g, c) + LocalValue(1, g, c)

\* C2's case: a face both ranks hold, with a contribution a # 0 on rank 0
\* and 0 on rank 1, combined to a.
C2_Witness ==
    /\ nprocs = 2 /\ AllAt("L169") /\ numberOfComponents > 0
    /\ \E g \in GlobalFaces :
          /\ Holders(g) = {0, 1}
          /\ LocalValue(0, g, 1) # 0
          /\ LocalValue(1, g, 1) = 0
          /\ globalFaceVec[g][1] = LocalValue(0, g, 1)

\* Rank p has left Save or Register, by return or by exception.
Left(p) == pc[p] \in {"idle", "threw", "destroyed"}

\* C3: whenever a rank is outside Save, whether Save returned or threw,
\* it holds none of the transient buffers and views Save acquires.
C3_BuffersReleasedOnEveryExit ==
    \A p \in Ranks : Left(p) => checkedOut[p] = {}

\* The current Save call ended on rank p with ComputeRHSFunction failing.
ComputeFailed(p) ==
    /\ pc[p] = "threw"
    /\ opLog[p] # <<>>
    /\ opLog[p][Len(opLog[p])] = "ComputeRHSFunction"

\* C4: a Save call in which ComputeRHSFunction reports failure has written
\* nothing to the output stream, whatever its sequence number.
C4_NoOutputOnComputeFailure ==
    \A p \in Ranks : ComputeFailed(p) => written = <<>>

\* C5: a Register call handed a solver that is no BoundarySolver throws
\* std::invalid_argument and creates no mesh and sets no mesh handle; on a
\* monitor that had no other Register call both handles are then unset, and
\* stay so, and its destructor destroys no mesh.
C5_WrongSolverAllocatesNothing ==
    /\ [](\A p \in Ranks :
            (error[p] = "invalid_argument" /\ registerCalls = 1)
            => /\ boundaryDm[p] = NULL /\ faceDm[p] = NULL
               /\ created[p] = 0 /\ destroyed[p] = <<>>)
    /\ [][\A s \in [Ranks -> OtherSolvers], checked \in BOOLEAN :
            Register(s, checked)
            => \A p \in Ranks :
                  /\ pc'[p] = "threw" /\ error'[p] = "invalid_argument"
                  /\ boundaryDm'[p] = boundaryDm[p] /\ faceDm'[p] = faceDm[p]
                  /\ created'[p] = created[p]]_vars

\* C5's case: the monitor was destroyed after its only Register call was
\* turned down, and no mesh was destroyed.
C5_Witness ==
    \E p \in Ranks :
        /\ error[p] = "invalid_argument" /\ registerCalls = 1
        /\ pc[p] = "destroyed" /\ destroyed[p] = <<>>

\* C6: a Register call handed a geometry entry whose face id lies outside
\* [fStart, fEnd) fails with an error and does not complete registration.
C6_InvalidFaceIdRejected ==
    \A p \in Ranks :
        (/\ boundarySolver[p].kind = "boundary"
         /\ ~(Range(boundarySolver[p].geometry) \subseteq Faces))
        => /\ ~registered[p]
           /\ error[p] = "petsc"
           /\ pc[p] \in {"threw", "destroyed"}

HasTopology == \E i \in DOMAIN written : written[i].kind = "topology"

\* C7: a Save call puts the topology record of the Face Sub-mesh on the
\* output stream exactly when its sequence number is 0: it writes one, as
\* its first record, once it is past line 93 with sequence number 0, and
\* writes none with any other sequence number.
C7_TopologyOnlyAtSequenceZero ==
    /\ HasTopology => sequenceNumber = 0
    /\ \A i \in DOMAIN written : written[i].kind = "topology" => i = 1
    /\ (saveCalls > 0 /\ sequenceNumber = 0 /\ \A p \in Ranks : pc[p] # "L91")
       => HasTopology

\* C7's case: a second Save call, again with sequence number 0, has
\* returned and has written the topology record; the monitor has also seen
\* a call with another sequence number or not, as the run goes.
C7_Witness ==
    /\ saveCalls = 2 /\ sequenceNumber = 0
    /\ \A p \in Ranks : pc[p] = "idle"
    /\ HasTopology

\* The position of the first occurrence of op in log, 0 when it has none.
FirstAt(log, op) ==
    IF \E i \in DOMAIN log : log[i] = op
    THEN CHOOSE i \in DOMAIN log : log[i] = op /\ \A j \in 1 .. (i - 1) : log[j] # op
    ELSE 0

\* C8: every field vector a Save call writes carries the sequence number
\* and the time of that call, and on every rank the call has tagged faceDm
\* before it writes the vector.
C8_VectorTaggedByItsCall ==
    \A i \in DOMAIN written :
        written[i].kind = "vec"
        => /\ written[i].num = sequenceNumber
           /\ written[i].val = time
           /\ \A p \in Ranks :
                 /\ FirstAt(opLog[p], "DMSetOutputSequenceNumber") > 0
                 /\ FirstAt(opLog[p], "DMSetOutputSequenceNumber")
                        < FirstAt(opLog[p], "VecView")

\* C8's case: the second Save call has written its vector, tagged with its
\* own time, after an earlier call tagged faceDm differently.
C8_Witness ==
    /\ saveCalls = 2
    /\ \E i \in DOMAIN written :
          written[i].kind = "vec" /\ written[i].val = 2 /\ written[i].num = sequenceNumber

\* A BoundarySolver without geometry entries.
EmptyBoundarySolvers == {[kind |-> "boundary", geometry |-> <<>>]}

\* C9: Register on a boundary geometry without entries returns normally
\* and leaves an empty Face Sub-mesh; a Save on it makes no per-point copy,
\* can always take its next step, and when it has returned it has written,
\* as its last record, a vector without entries tagged with the call's
\* sequence number and time.
C9_EmptyBoundary ==
    /\ [][\A s \in [Ranks -> EmptyBoundarySolvers], checked \in BOOLEAN :
            Register(s, checked)
            => \A p \in Ranks :
                  /\ registered'[p] /\ error'[p] = "none" /\ pc'[p] = "idle"
                  /\ faceDm'[p] # NULL
                  /\ cEnd'[p] = 0 /\ faceToBoundary'[p] = <<>>]_vars
    /\ [](\A p \in Ranks :
            (registered[p] /\ boundarySolver[p] \in EmptyBoundarySolvers)
            => /\ faceToBoundary[p] = <<>>
               /\ "PetscArraycpy" \notin Range(opLog[p])
               /\ ~Left(p) => ENABLED Next
               /\ (pc[p] = "idle" /\ saveCalls > 0)
                  => /\ written # <<>>
                     /\ written[Len(written)].kind = "vec"
                     /\ written[Len(written)].num = sequenceNumber
                     /\ written[Len(written)].val = time
                     /\ DOMAIN written[Len(written)].values = {})

\* C9's case: a Save on an empty Face Sub-mesh has returned.
C9_Witness ==
    \E p \in Ranks :
        /\ registered[p] /\ boundarySolver[p] \in EmptyBoundarySolvers
        /\ faceToBoundary[p] = <<>> /\ cEnd[p] = 0
        /\ pc[p] = "idle" /\ saveCalls > 0
        /\ written # <<>> /\ written[Len(written)].kind = "vec"

\* seq lists the members of S, each once.
IsBijectionOnto(seq, S) ==
    /\ \A i, j \in DOMAIN seq : seq[i] = seq[j] => i = j
    /\ Range(seq) = S
    /\ Len(seq) = Cardinality(S)

\* The faces of the mesh that the geometry entries of rank p's solver name.
MarkedFaces(p) == Range(boundarySolver[p].geometry) \cap Faces

\* C10, as amended: once Register on a boundary solver has returned, the
\* back-reference index set restricted to the cell stratum [cStart, cEnd)
\* of the Face Sub-mesh is a bijection onto the faces of the mesh that the
\* geometry entries name; the points it lists after the cell stratum are
\* no faces.
C10_BackReferenceCells ==
    \A p \in Ranks :
        (registered[p] /\ boundarySolver[p].kind = "boundary")
        => /\ cEnd[p] <= Len(faceToBoundary[p])
           /\ IsBijectionOnto(SubSeq(faceToBoundary[p], 1, cEnd[p]), MarkedFaces(p))
           /\ \A i \in (cEnd[p] + 1) .. Len(faceToBoundary[p]) :
                 faceToBoundary[p][i] \notin Faces

\* C10 as stated: once Register on a boundary solver has returned, the
\* back-reference index set as a whole is a bijection onto the faces the
\* geometry entries marked.
C10_BackReferenceWhole ==
    \A p \in Ranks :
        (registered[p] /\ boundarySolver[p].kind = "boundary")
        => IsBijectionOnto(faceToBoundary[p], MarkedFaces(p))

\* C10's case: a registered Face Sub-mesh with two cells, whose index set
\* lists two distinct faces first and then further points.
C10_Witness ==
    \E p \in Ranks :
        /\ registered[p] /\ cEnd[p] = 2
        /\ Len(faceToBoundary[p]) > 2
        /\ faceToBoundary[p][1] # faceToBoundary[p][2]
        /\ {faceToBoundary[p][1], faceToBoundary[p][2]} = MarkedFaces(p)

\* The handles of the meshes rank p has created so far.
CreatedMeshes(p) == 1 .. created[p]

\* C11: no mesh is passed to DMDestroy twice, and once the monitor is
\* destroyed every Boundary Mesh and Face Sub-mesh that Register created,
\* in however many calls, has been passed to DMDestroy.
C11_MeshesReleasedExactlyOnce ==
    \A p \in Ranks :
        /\ \A i, j \in DOMAIN destroyed[p] : destroyed[p][i] = destroyed[p][j] => i = j
        /\ pc[p] = "destroyed" => Range(destroyed[p]) = CreatedMeshes(p)

\* The state of the snapshot state machine that rank p is in at line l of
\* Save: it computes up to line 112, copies in lines 116-159, reduces in
\* lines 163-166, and has the reduced vector to serialize from line 169.
SavePhase(l) ==
    CASE l \in {"L91", "L96", "L100", "L101", "L105", "L106", "L109", "L112"} -> 1
      [] l \in {"L116", "L117", "L121", "L123", "L136", "L140", "L156", "L158", "L159"} -> 2
      [] l \in {"L163", "L165", "L166"} -> 3
      [] l \in {"L169", "L170", "L173", "L174", "L175"} -> 4
      [] OTHER -> 0

\* The state a call of the current Save belongs to, 0 for a call that
\* belongs to none.
OpPhase(op) ==
    CASE op = "ComputeRHSFunction" -> 1
      [] op = "PetscArraycpy" -> 2
      [] op = "DMLocalToGlobal" -> 3
      [] op = "VecView" -> 4
      [] OTHER -> 0

\* The number of entries of log that are op.
CountOf(log, op) == Cardinality({i \in DOMAIN log : log[i] = op})

\* Rank p has returned from a Save call, and nothing happened to it since.
Returned(p) == pc[p] = "idle" /\ saveCalls > 0

\* C12: a Save call moves from Idle through Computing, Copying, Reducing
\* and Serialized back to Idle, one state after the other (or leaves by an
\* exception); the computation precedes every copy, every copy precedes
\* the reduction and the reduction precedes the write of the vector, and a
\* call that returned has computed, reduced and written exactly once.
C12_SnapshotStateOrder ==
    /\ [][\A p \in Ranks :
            pc'[p] # pc[p]
            => \/ pc'[p] \in {"threw", "destroyed"}
               \/ SavePhase(pc'[p]) = SavePhase(pc[p])
               \/ SavePhase(pc'[p]) = (SavePhase(pc[p]) + 1) % 5]_vars
    /\ [](\A p \in Ranks :
            /\ \A i, j \in DOMAIN opLog[p] :
                  (OpPhase(opLog[p][i]) > 0 /\ OpPhase(opLog[p][i]) < OpPhase(opLog[p][j]))
                  => i < j
            /\ Returned(p)
               => /\ CountOf(opLog[p], "ComputeRHSFunction") = 1
                  /\ CountOf(opLog[p], "DMLocalToGlobal") = 1
                  /\ CountOf(opLog[p], "VecView") = 1)

\* C12's case: a Save call that copied two blocks has returned.
C12_Witness ==
    \E p \in Ranks :
        /\ Returned(p)
        /\ CountOf(opLog[p], "PetscArraycpy") = 2
        /\ CountOf(opLog[p], "VecView") = 1

\* The collective calls of Save.
IsCollective(op) ==
    op \in {"DMView", "DMGlobalToLocalBegin", "DMGlobalToLocalEnd", "DMLocalToGlobal",
            "VecView"}
CollectivesOf(log) == SelectSeq(log, IsCollective)

\* Rank p is inside Save.
InSave(p) == SavePhase(pc[p]) > 0

\* Rank p is about to enter a collective call.
AtCollective(p) ==
    \/ pc[p] = "L91" /\ IsFirstOutput(sequenceNumber)
    \/ pc[p] \in {"L101", "L109", "L166", "L169"}

\* C13: while all ranks are inside the same Save call, whatever their local
\* data, they have entered the same collective calls in the same order, two
\* ranks that wait in a collective call wait in the same one, and some rank
\* can take a step, so no rank waits for a peer that never comes.
C13_CollectivesInLockstep ==
    (\A q \in Ranks : InSave(q))
    => /\ \A p, q \in Ranks :
             /\ CollectivesOf(opLog[p]) = CollectivesOf(opLog[q])
             /\ (AtCollective(p) /\ AtCollective(q)) => pc[p] = pc[q]
       /\ ENABLED Next

\* C13's case: two ranks are through the collective calls of a Save, one
\* having copied blocks and the other holding an empty sub-mesh.
C13_Witness ==
    /\ nprocs = 2
    /\ \A p \in Ranks : pc[p] = "L170"
    /\ \E p, q \in Ranks :
          /\ CountOf(opLog[p], "PetscArraycpy") > 0
          /\ cEnd[q] = 0
          /\ CollectivesOf(opLog[q]) =
                <<"DMView", "DMGlobalToLocalBegin", "DMGlobalToLocalEnd",
                  "DMLocalToGlobal", "VecView">>

\* C14: in Save the ghost-exchange begin is immediately followed by its
\* end; no other call of Save comes between the two.
C14_BeginImmediatelyFollowedByEnd ==
    \A p \in Ranks :
        \A i \in DOMAIN opLog[p] :
            (opLog[p][i] = "DMGlobalToLocalBegin" /\ i < Len(opLog[p]))
            => opLog[p][i + 1] = "DMGlobalToLocalEnd"

\* The copy step of rank p is over and its views are still held.
AfterCopy(p) == pc[p] = "L156"

\* Both raw array views of rank p are non-null.
ArraysValid(p) == localBoundaryArray[p] = "data" /\ localFaceArray[p] = "data"

\* The read location of boundary point pt, and the write location of
\* sub-mesh point facePt, exist on rank p.
ReadValid(p, pt) ==
    pt \in DOMAIN boundaryFaceSection[p] /\ boundaryFaceSection[p][pt] > 0
WriteValid(p, facePt) ==
    facePt + 1 \in DOMAIN localFaceVec[p] /\ Len(localFaceVec[p][facePt + 1]) > 0

HasRepeat(seq) == \E i, j \in DOMAIN seq : i # j /\ seq[i] = seq[j]

\* seq without the later occurrences of its entries.
RECURSIVE Dedup(_)
Dedup(seq) ==
    IF seq = <<>> THEN <<>>
    ELSE LET front == SubSeq(seq, 1, Len(seq) - 1)
             last == seq[Len(seq)]
         IN  IF last \in Range(front) THEN Dedup(front) ELSE Append(Dedup(front), last)

\* C16: a Register call whose geometry entries name a face of the mesh
\* more than once returns without error, and the Face Classification and
\* the Face Layout it leaves are those that Register leaves when every face
\* is named once: the repeated face has numberOfComponents dofs.
C16_RepeatedFaceOverwrites ==
    [][\A p \in Ranks :
          (/\ registerCalls' = registerCalls + 1
           /\ boundarySolver'[p].kind = "boundary"
           /\ Range(boundarySolver'[p].geometry) \subseteq Faces
           /\ HasRepeat(boundarySolver'[p].geometry))
          => LET once == RegisterRank(p, [kind |-> "boundary",
                                          geometry |-> Dedup(boundarySolver'[p].geometry)],
                                      TRUE)
             IN  /\ registered'[p] /\ error'[p] = "none"
                 /\ boundaryFaceLabel'[p] = once.boundaryFaceLabel
                 /\ boundaryFaceSection'[p] = once.boundaryFaceSection
                 /\ \A f \in Range(boundarySolver'[p].geometry) :
                       boundaryFaceSection'[p][f] = numberOfComponents]_vars

\* C16's case: Register has returned on a geometry that names a face twice,
\* with two output components.
C16_Witness ==
    \E p \in Ranks :
        /\ registered[p] /\ numberOfComponents = 2
        /\ HasRepeat(boundarySolver[p].geometry)
        /\ \E f \in Range(boundarySolver[p].geometry) : boundaryFaceSection[p][f] = 2

\* The step from the current state installs the output fields on rank p's
\* Face Sub-mesh (lines 72-85 of a Register call that returns).
InstallsFields(p) == registerCalls' = registerCalls + 1 /\ registered'[p]

\* C17: over any sequence of Register and Save calls the output fields are
\* installed once, on an extracted Face Sub-mesh, and never again; and a
\* Save only ever works on a Face Sub-mesh that is set and has its fields
\* installed.
C17_FieldsInstalledOnce ==
    /\ [][\A p \in Ranks :
            InstallsFields(p)
            => /\ ~faceDs[p]
               /\ faceDm'[p] # NULL
               /\ saveCalls = 0]_vars
    /\ [](\A p \in Ranks :
            InSave(p)
            => faceDm[p] # NULL /\ faceDs[p] /\ faceFields[p] = numberOfComponents)

\* The boundary result of rank p for its solution at the current Save call,
\* computed into a zeroed vector.
FreshResult(p) ==
    ComputeRHSFunction([f \in DOMAIN boundaryFaceSection[p] |->
                           Zeros(boundaryFaceSection[p][f])],
                       solution[p])

RECURSIVE SumFresh(_, _, _)
SumFresh(S, g, c) ==
    IF S = {} THEN 0
    ELSE LET p == CHOOSE q \in S : TRUE
         IN  FreshResult(p)[g][c] + SumFresh(S \ {p}, g, c)

\* In log, `zero` comes after `get` and before `use`, as far as the log has
\* reached `use`.
ZeroedBeforeUse(log, get, zero, use) ==
    FirstAt(log, use) > 0
    => /\ 0 < FirstAt(log, get)
       /\ FirstAt(log, get) < FirstAt(log, zero)
       /\ FirstAt(log, zero) < FirstAt(log, use)

\* C18: the vector a Save call writes is a function of the call's time and
\* of the solution the solver holds at the call: it carries the call's
\* time, and its value at every face and component is the sum over the
\* ranks holding the face of their freshly computed boundary results,
\* whatever earlier Save calls left in the pooled vectors; each of the
\* three vectors is zeroed after it is acquired and before it is used.
C18_SnapshotFromCurrentCallOnly ==
    /\ \A i \in DOMAIN written :
          written[i].kind = "vec"
          => /\ written[i].val = time
             /\ DOMAIN written[i].values = GlobalFaces
             /\ \A g \in GlobalFaces :
                   /\ Len(written[i].values[g]) = numberOfComponents
                   /\ \A c \in 1 .. numberOfComponents :
                         written[i].values[g][c] = SumFresh(Holders(g), g, c)
    /\ \A p \in Ranks :
          /\ ZeroedBeforeUse(opLog[p], "DMGetLocalVector(localBoundaryVec)",
                             "VecZeroEntries(localBoundaryVec)", "ComputeRHSFunction")
          /\ ZeroedBeforeUse(opLog[p], "DMGetLocalVector(localFaceVec)",
                             "VecZeroEntries(localFaceVec)", "VecGetArray(localFaceVec)")
          /\ ZeroedBeforeUse(opLog[p], "DMGetGlobalVector(globalFaceVec)",
                             "VecZeroEntries(globalFaceVec)", "DMLocalToGlobal")

\* C18's case: a second Save call, made on a zero solution, has written a
\* vector with a zero entry although the pooled vectors held nonzero
\* values from the first.
C18_Witness ==
    /\ saveCalls = 2 /\ numberOfComponents > 0
    /\ \A p \in Ranks : solution[p] = 0 /\ Returned(p)
    /\ \E i \in DOMAIN written, g \in GlobalFaces :
          written[i].kind = "vec" /\ written[i].values[g][1] = 0

\* The transient buffers and views of Save, each with the call that
\* acquires it and the call that releases it.
TransientBuffers ==
    {<<"DMGetLocalVector(locXVec)", "DMRestoreLocalVector(locXVec)">>,
     <<"DMGetLocalVector(localBoundaryVec)", "DMRestoreLocalVector(localBoundaryVec)">>,
     <<"DMGetLocalVector(localFaceVec)", "DMRestoreLocalVector(localFaceVec)">>,
     <<"DMGetGlobalVector(globalFaceVec)", "DMRestoreGlobalVector(globalFaceVec)">>,
     <<"VecGetArrayRead(localBoundaryVec)", "VecRestoreArrayRead(localBoundaryVec)">>,
     <<"VecGetArray(localFaceVec)", "VecRestoreArray(localFaceVec)">>,
     <<"ISGetIndices(faceIs)", "ISRestoreIndices(faceIs)">>}

\* C19: when Save has returned normally the rank holds no buffer: each of
\* the three local vectors, the global vector, the two array views and the
\* index view was acquired once and released once; at no moment has a
\* release come before its acquisition, and the global vector is released
\* only after VecView has written it.
C19_AcquireReleaseBalanced ==
    \A p \in Ranks :
        /\ \A b \in TransientBuffers :
              /\ CountOf(opLog[p], b[1]) <= 1 /\ CountOf(opLog[p], b[2]) <= 1
              /\ FirstAt(opLog[p], b[2]) > 0
                 => (0 < FirstAt(opLog[p], b[1]) /\ FirstAt(opLog[p], b[1]) < FirstAt(opLog[p], b[2]))
        /\ FirstAt(opLog[p], "DMRestoreGlobalVector(globalFaceVec)") > 0
           => /\ 0 < FirstAt(opLog[p], "VecView")
              /\ FirstAt(opLog[p], "VecView")
                    < FirstAt(opLog[p], "DMRestoreGlobalVector(globalFaceVec)")
        /\ Returned(p)
           => /\ checkedOut[p] = {}
              /\ \A b \in TransientBuffers :
                    CountOf(opLog[p], b[1]) = 1 /\ CountOf(opLog[p], b[2]) = 1

\* C19's case: the second Save call has returned with all seven buffers
\* acquired and released.
C19_Witness ==
    /\ saveCalls = 2
    /\ \E p \in Ranks :
          /\ Returned(p) /\ checkedOut[p] = {}
          /\ \A b \in TransientBuffers : FirstAt(opLog[p], b[2]) > 0

\* A step of Save: a rank enters Save, or moves on or out from a line of it.
SaveStep ==
    \E p \in Ranks : pc'[p] # pc[p] /\ (InSave(p) \/ SavePhase(pc'[p]) > 0)

\* C20: no step of Save changes what Register built: the mesh handles, the
\* Face Classification, the Face Layout, the Face Sub-mesh's points and
\* fields and discretization, and the back-reference index set stay as
\* they are; Save changes the sub-mesh's output tag, the output stream and
\* its transient buffers only.
C20_SaveLeavesMeshesUnchanged ==
    [][SaveStep
       => /\ UNCHANGED <<boundaryDm, faceDm, boundarySolver, registered>>
          /\ UNCHANGED <<boundaryFaceLabel, boundaryFaceSection, faceToBoundary, cEnd,
                         faceFields, faceDs>>]_vars

\* C20's case: two Save calls have returned, the tag is that of the second,
\* and the sub-mesh still has the two cells and the layout Register gave it.
C20_Witness ==
    /\ saveCalls = 2 /\ numberOfComponents > 0
    /\ \E p \in Ranks :
          /\ Returned(p) /\ outputSequence[p].val = 2
          /\ cEnd[p] = 2 /\ Len(faceToBoundary[p]) > 2
          /\ \A f \in MarkedFaces(p) : boundaryFaceSection[p][f] = numberOfComponents
          /\ faceDs[p] /\ faceFields[p] = numberOfComponents

====
